---- MODULE Spec2Model ----
(***************************************************************************)
(* Model of backup.py (hirusha-adi/backup-files-to-thumbdrive): the        *)
(* delivery of one archive to a directory, to a removable volume found by  *)
(* its label, or to both, with copy retry and retention rotation.          *)
(***************************************************************************)
EXTENDS Integers, Sequences, FiniteSets, TLC

VARIABLES
    pc,                \* position of the program
    destination_type,  \* Config.destination_type
    count,             \* Config.count
    drive_name,        \* Config.drive_config_drive_name
    archiveExists,     \* a file exists at tmp_file_path
    outDir,            \* state of Config.directory_config_ouput_path
    dirFiles,          \* listing of the output directory
    roots,             \* the drive roots A:\, B:\, ... of the host
    drive_letter,      \* run_mode_drive's drive_letter / the locator's result
    retries,           \* copy_with_retry's retries argument
    delay,             \* copy_with_retry's delay argument
    tries,             \* outcomes of the shutil.copy2 calls of the current call
    copyResult,        \* how the last copy_with_retry call ended
    rotBefore,         \* listing rotate_backups read in its last call
    rotFailed,         \* names whose os.remove failed in the last call
    events,            \* operations the run has started so far
    reported,          \* success messages the run has logged
    copied,            \* legs whose shutil.copy2 succeeded
    polls,             \* fruitless polls since the loop last used a root (capped)
    cancelled,         \* the host has raised a shutdown signal
    everTarget         \* a readable volume labelled drive_name was mounted at some time

vars == <<pc, destination_type, count, drive_name, archiveExists, outDir,
          dirFiles, roots, drive_letter, retries, delay, tries, copyResult,
          rotBefore, rotFailed, events, reported, copied, polls, cancelled,
          everTarget>>

----------------------------------------------------------------------------
(* Bounds of the model *)

NumLetters == 2     \* drive letters scanned (string.ascii_uppercase has 26)
MaxCount == 1       \* Config.count ranges over 0..MaxCount in a run
MaxPolls == 3       \* fruitless polls counted
MaxFiles == 3       \* entries of a directory handed to rotate_backups
MaxTime == 2        \* creation times of the entries already present
MaxKeep == 2        \* max_count handed to rotate_backups
MaxRetries == 5     \* retries handed to copy_with_retry

(* Constants of the program *)

CopyRetries == 5    \* retries=5 at both call sites
CopyDelay == 1      \* delay=1 at both call sites
NoDrive == 0        \* None, the locator's "not found"

Min(a, b) == IF a < b THEN a ELSE b
Max(a, b) == IF a > b THEN a ELSE b

----------------------------------------------------------------------------
(* Directory listings *)

\* The archive of this run: its name, and the creation time a copy gets.
NewName == 0
Now == MaxTime + 1
NewArchive == [name |-> NewName, ext7z |-> TRUE, isfile |-> TRUE, ctime |-> Now]

\* What an entry already present can be: an archive file with some creation
\* time, a regular file of another type, a subdirectory named like an archive.
EntryKinds ==
    {[ext7z |-> TRUE, isfile |-> TRUE, ctime |-> t] : t \in 1..MaxTime}
    \cup {[ext7z |-> FALSE, isfile |-> TRUE, ctime |-> 1],
          [ext7z |-> TRUE, isfile |-> FALSE, ctime |-> 1]}

Named(k, n) == [name |-> n, ext7z |-> k.ext7z, isfile |-> k.isfile, ctime |-> k.ctime]

\* Listings of n entries, the i-th named i.
ListingsOfLen(n) ==
    {[i \in 1..n |-> Named(f[i], i)] : f \in [1..n -> EntryKinds]}

Listings(maxLen) == UNION {ListingsOfLen(n) : n \in 0..maxLen}

OldArchive == [name |-> 1, ext7z |-> TRUE, isfile |-> TRUE, ctime |-> 1]

\* A second archive of an earlier run, created after OldArchive.
OldArchive2 == [name |-> 2, ext7z |-> TRUE, isfile |-> TRUE, ctime |-> 2]

Names(s) == {s[i].name : i \in DOMAIN s}

----------------------------------------------------------------------------
(* rotate_backups *)

\* Python's s[:stop]: a negative stop counts from the end, and -0 is 0.
SliceTo(s, stop) ==
    LET n == Len(s)
        k == IF stop < 0 THEN Max(n + stop, 0) ELSE Min(stop, n)
    IN  SubSeq(s, 1, k)

\* Mutant of IsCandidate: the name alone decides, isfile is not asked.
IsCandidate_NameOnly(e) == e.ext7z

\* f.endswith(".7z") and os.path.isfile(...)
IsCandidate(e) == e.ext7z /\ e.isfile

Candidates(files) == SelectSeq(files, IsCandidate)

\* e placed behind every element created no later than it (list.sort is stable).
InsertByCtime(s, e) ==
    LET before == {i \in DOMAIN s : s[i].ctime <= e.ctime}
        k == IF before = {} THEN 0 ELSE CHOOSE i \in before : \A j \in before : j <= i
    IN  SubSeq(s, 1, k) \o <<e>> \o SubSeq(s, k + 1, Len(s))

RECURSIVE SortByCtime(_)
SortByCtime(s) ==
    IF s = <<>> THEN <<>>
    ELSE InsertByCtime(SortByCtime(SubSeq(s, 1, Len(s) - 1)), s[Len(s)])

\* The files the loop hands to os.remove, in order.
Excess(files, max_count) ==
    LET sorted == SortByCtime(Candidates(files))
    IN  IF Len(sorted) > max_count THEN SliceTo(sorted, -max_count) ELSE <<>>

\* Mutant of rotate_backups: the first os.remove that fails ends the pass.
rotate_backups_StopAtFirstFailure(files, max_count, locked) ==
    LET excess == Excess(files, max_count)
        failing == {i \in DOMAIN excess : excess[i].name \in locked}
        upto == IF failing = {} THEN Len(excess)
                ELSE (CHOOSE i \in failing : \A j \in failing : i <= j) - 1
        removed == Names(SubSeq(excess, 1, upto))
    IN  SelectSeq(files, LAMBDA e : e.name \notin removed)

\* The listing rotate_backups leaves; os.remove fails for the names in locked.
rotate_backups(files, max_count, locked) ==
    LET removed == Names(Excess(files, max_count)) \ locked
    IN  SelectSeq(files, LAMBDA e : e.name \notin removed)

----------------------------------------------------------------------------
(* is_drive_connected_with_label *)

Letters == 1..NumLetters
Labels == {"BACKUP1", "backup1"}
TargetLabel == "BACKUP1"

Absent == [exists |-> FALSE, query |-> "ok", label |-> "", files |-> <<>>]

\* Mutant of VolumeName: the file system name buffer is read for the label.
VolumeName_WrongBuffer(r) == IF r.query = "ok" THEN "NTFS" ELSE ""

\* volume_name_buffer.value after GetVolumeInformationW: the label when the
\* call succeeded, the untouched empty buffer when it returned 0.
VolumeName(r) == IF r.query = "ok" THEN r.label ELSE ""

\* Mutant of ScanFrom: a root whose query raises ends the scan.
RECURSIVE ScanFrom_AbortOnError(_, _, _)
ScanFrom_AbortOnError(rs, target_label, l) ==
    IF l > NumLetters THEN NoDrive
    ELSE IF ~rs[l].exists THEN ScanFrom_AbortOnError(rs, target_label, l + 1)
    ELSE IF rs[l].query = "raise" THEN NoDrive
    ELSE IF rs[l].query = "ok" /\ VolumeName(rs[l]) = target_label THEN l
    ELSE ScanFrom_AbortOnError(rs, target_label, l + 1)

\* Mutant of ScanFrom: the label of a root is not compared with the target.
RECURSIVE ScanFrom_IgnoreLabel(_, _, _)
ScanFrom_IgnoreLabel(rs, target_label, l) ==
    IF l > NumLetters THEN NoDrive
    ELSE IF ~rs[l].exists THEN ScanFrom_IgnoreLabel(rs, target_label, l + 1)
    ELSE IF rs[l].query = "raise" THEN ScanFrom_IgnoreLabel(rs, target_label, l + 1)
    ELSE IF rs[l].query = "ok" THEN l
    ELSE ScanFrom_IgnoreLabel(rs, target_label, l + 1)

\* The scan of the letters from l on.
RECURSIVE ScanFrom(_, _, _)
ScanFrom(rs, target_label, l) ==
    IF l > NumLetters THEN NoDrive
    ELSE IF ~rs[l].exists THEN ScanFrom(rs, target_label, l + 1)
    ELSE IF rs[l].query = "raise" THEN ScanFrom(rs, target_label, l + 1)
    ELSE IF rs[l].query = "ok" /\ VolumeName(rs[l]) = target_label THEN l
    ELSE ScanFrom(rs, target_label, l + 1)

is_drive_connected_with_label(rs, target_label) == ScanFrom(rs, target_label, 1)

\* File operations under a root work when a readable volume is mounted there.
Usable(r) == r.exists /\ r.query = "ok"

----------------------------------------------------------------------------
(* copy_with_retry *)

\* shutil.copy2 leaves the archive in the destination listing.
CopyInto(files, e) ==
    IF e.name \in Names(files) THEN files ELSE Append(files, e)

\* What one shutil.copy2 call can do: "ok", "perm" (PermissionError) or
\* "raise" (any other exception), given the source and the destination. The
\* source is opened first, and the open can be refused whether a file is
\* there or not (the file is held by another process, its directory cannot
\* be searched): a PermissionError is possible whatever the source and the
\* destination are.
CopyOutcomes(srcExists, dstState) ==
    IF ~srcExists THEN {"raise", "perm"}
    ELSE IF dstState = "gone" THEN {"raise", "perm"}
    ELSE IF dstState = "readonly" THEN {"perm"}
    ELSE {"ok", "perm", "raise"}

\* Whether a shutil.copy2 call that ended with outcome o leaves the file it
\* created at the destination path: a call that succeeds does; a call that
\* raises after it opened the destination (the disk is full, the metadata
\* cannot be set) does too, one that raises before (no source, no
\* destination directory, a destination that cannot be written) does not.
Written(o, srcExists, dstState) ==
    IF o = "ok" THEN {TRUE}
    ELSE IF srcExists /\ dstState = "ok" THEN BOOLEAN
    ELSE {FALSE}

\* Mutant of ValidArgs: only retries is tested.
ValidArgs_RetriesOnly(r, d) == r # 0

\* if retries and delay
ValidArgs(r, d) == r # 0 /\ d # 0

\* except PermissionError: the one outcome the loop goes round again for.
IsTransient(o) == o = "perm"

\* Mutant of Exhausted: the loop allows one pass too many.
Exhausted_OneMore(made, r) == made > r

\* for _ in range(retries): no pass is left after `made` calls.
Exhausted(made, r) == made >= r

----------------------------------------------------------------------------
(* The run: main, run_mode_directory, run_mode_drive *)

DrivePcs == {"drv_poll", "drv_makedirs", "drv_copy", "drv_rotate"}

\* The leg a copy_with_retry call belongs to.
Leg == IF pc = "dir_copy" THEN "dir" ELSE IF pc = "drv_copy" THEN "drv" ELSE "call"

\* The state of the directory the copy writes into.
DstState ==
    IF Leg = "drv"
    THEN IF Usable(roots[drive_letter]) THEN "ok" ELSE "gone"
    ELSE IF outDir = "present" THEN "ok"
         ELSE IF outDir = "readonly" THEN "readonly" ELSE "gone"

\* Mutant of FirstMode: Both mode calls the drive mode first.
FirstMode_DriveFirst(dt) == IF dt = "directory" THEN "dir_makedirs" ELSE "drv_poll"

\* main's dispatch on Config.destination_type: the mode it calls first.
FirstMode(dt) == IF dt = "drive" THEN "drv_poll" ELSE "dir_makedirs"

\* main up to the dispatch: the 7za.exe check, os.system (whose exit status is
\* ignored and which raises nothing), then the call of the first mode.
Main ==
    /\ pc = "main"
    /\ \E tool \in BOOLEAN, produced \in BOOLEAN :
          IF ~tool
          THEN /\ pc' = "exit"
               /\ UNCHANGED archiveExists
          ELSE /\ archiveExists' = produced
               /\ pc' = FirstMode(destination_type)
    /\ UNCHANGED <<destination_type, count, drive_name, outDir, dirFiles, roots,
                   drive_letter, retries, delay, tries, copyResult, rotBefore,
                   rotFailed, events, reported, copied, polls, cancelled, everTarget>>

\* run_mode_directory: os.makedirs(output_path, exist_ok=True); an exception
\* is logged and ends the process (sys.exit).
DirMakedirs ==
    /\ pc = "dir_makedirs"
    /\ events' = events \cup {"dir_makedirs"} \cup
                     (IF outDir = "uncreatable" THEN {"dir_failed"} ELSE {})
    /\ IF outDir = "uncreatable"
       THEN /\ pc' = "exit"
            /\ UNCHANGED <<outDir, retries, delay, tries, copyResult>>
       ELSE /\ outDir' = IF outDir = "missing" THEN "present" ELSE outDir
            /\ pc' = "dir_copy"
            /\ retries' = CopyRetries
            /\ delay' = CopyDelay
            /\ tries' = <<>>
            /\ copyResult' = "none"
    /\ UNCHANGED <<destination_type, count, drive_name, archiveExists, dirFiles,
                   roots, drive_letter, rotBefore, rotFailed, reported, copied,
                   polls, cancelled, everTarget>>

\* Where control goes when copy_with_retry returns, and when it raises.
AfterCopy == IF Leg = "dir" THEN "dir_rotate" ELSE IF Leg = "drv" THEN "drv_rotate" ELSE "returned"

AfterRaise == IF Leg = "dir" THEN "exit" ELSE IF Leg = "drv" THEN "drv_poll" ELSE "raised"
RaiseEvents == IF Leg = "dir" THEN {"dir_failed"} ELSE {}

CopyEvents == IF Leg = "dir" THEN {"dir_copy"} ELSE {}

\* copy_with_retry: one pass of its loop, or its else branch.
copy_with_retry ==
    /\ pc \in {"dir_copy", "drv_copy", "call_copy"}
    /\ IF ~ValidArgs(retries, delay)
       THEN /\ copyResult' = "invalid"
            /\ pc' = AfterCopy
            /\ events' = events \cup CopyEvents
            /\ UNCHANGED <<tries, dirFiles, roots, copied>>
       ELSE \E o \in CopyOutcomes(archiveExists, DstState) :
            \E written \in Written(o, archiveExists, DstState) :
            /\ tries' = Append(tries, o)
            /\ events' = events \cup CopyEvents \cup
                             (IF o # "ok" /\ ~IsTransient(o) THEN RaiseEvents ELSE {})
            /\ copyResult' = IF o = "ok" THEN "ok"
                             ELSE IF ~IsTransient(o) THEN "raised"
                             ELSE IF Exhausted(Len(tries) + 1, retries) THEN "exhausted"
                             ELSE "none"
            /\ pc' = IF o = "ok" THEN AfterCopy
                     ELSE IF ~IsTransient(o) THEN AfterRaise
                     ELSE IF Exhausted(Len(tries) + 1, retries) THEN AfterCopy
                     ELSE pc
            /\ copied' = IF o = "ok" THEN copied \cup {Leg} ELSE copied
            /\ dirFiles' = IF written /\ Leg # "drv"
                           THEN CopyInto(dirFiles, NewArchive) ELSE dirFiles
            /\ roots' = IF written /\ Leg = "drv"
                        THEN [roots EXCEPT ![drive_letter].files = CopyInto(@, NewArchive)]
                        ELSE roots
    /\ UNCHANGED <<destination_type, count, drive_name, archiveExists, outDir,
                   drive_letter, retries, delay, rotBefore, rotFailed, reported,
                   polls, cancelled, everTarget>>

\* The names whose os.remove may fail: any of the excess, all of them when
\* the directory is read-only.
LockedChoices(files, max_count, readonly) ==
    IF readonly THEN {Names(Excess(files, max_count))}
    ELSE SUBSET Names(Excess(files, max_count))

\* run_mode_directory after the copy: rotate_backups, the two success
\* messages, and main's continuation.
DirRotate ==
    /\ pc = "dir_rotate"
    /\ \E locked \in LockedChoices(dirFiles, count, outDir = "readonly") :
          /\ dirFiles' = rotate_backups(dirFiles, count, locked)
          /\ rotFailed' = locked
    /\ rotBefore' = dirFiles
    /\ events' = events \cup {"dir_rotate"}
    /\ reported' = reported \cup {"dir_ok"} \cup
                       (IF destination_type = "directory" THEN {"all_ok"} ELSE {})
    /\ pc' = IF destination_type = "both" THEN "drv_poll" ELSE "done"
    /\ tries' = <<>>
    /\ UNCHANGED <<destination_type, count, drive_name, archiveExists, outDir,
                   roots, drive_letter, retries, delay, copyResult,
                   copied, polls, cancelled, everTarget>>

\* run_mode_drive: one pass of the while loop up to the test of drive_letter;
\* not found sleeps 10 seconds and polls again.
DrvPoll ==
    /\ pc = "drv_poll"
    /\ drive_letter' = is_drive_connected_with_label(roots, drive_name)
    /\ events' = events \cup {"drv_poll"}
    /\ IF drive_letter' # NoDrive
       THEN /\ pc' = "drv_makedirs"
            /\ UNCHANGED polls
       ELSE /\ pc' = "drv_poll"
            /\ polls' = Min(polls + 1, MaxPolls)
    /\ tries' = <<>>
    /\ UNCHANGED <<destination_type, count, drive_name, archiveExists, outDir,
                   dirFiles, roots, retries, delay, copyResult, rotBefore,
                   rotFailed, reported, copied, cancelled, everTarget>>

\* os.makedirs(backup_dir, exist_ok=True) on the root just found; an
\* exception is logged, and after 10 seconds the loop polls again. The count
\* of fruitless polls starts again.
DrvMakedirs ==
    /\ pc = "drv_makedirs"
    /\ \E writable \in BOOLEAN :
          IF Usable(roots[drive_letter]) /\ writable
          THEN /\ pc' = "drv_copy"
               /\ retries' = CopyRetries
               /\ delay' = CopyDelay
               /\ tries' = <<>>
               /\ copyResult' = "none"
          ELSE /\ pc' = "drv_poll"
               /\ UNCHANGED <<retries, delay, tries, copyResult>>
    /\ UNCHANGED <<destination_type, count, drive_name, archiveExists, outDir,
                   dirFiles, roots, drive_letter, rotBefore, rotFailed, events,
                   reported, copied, cancelled, everTarget>>
    /\ polls' = 0

\* run_mode_drive after the copy: rotate_backups (which swallows the error of
\* a directory that cannot be listed), break, the success messages of
\* run_mode_drive and of main.
DrvRotate ==
    /\ pc = "drv_rotate"
    /\ IF Usable(roots[drive_letter])
       THEN \E locked \in LockedChoices(roots[drive_letter].files, count, FALSE) :
              /\ roots' = [roots EXCEPT ![drive_letter].files =
                                rotate_backups(@, count, locked)]
              /\ rotFailed' = locked
              /\ rotBefore' = roots[drive_letter].files
       ELSE UNCHANGED <<roots, rotFailed, rotBefore>>
    /\ reported' = reported \cup {"drv_ok", "all_ok"} \cup
                       (IF destination_type = "both" THEN {"both_ok"} ELSE {})
    /\ pc' = "done"
    /\ tries' = <<>>
    /\ UNCHANGED <<destination_type, count, drive_name, archiveExists, outDir,
                   dirFiles, drive_letter, retries, delay, copyResult, events,
                   copied, polls, cancelled, everTarget>>

----------------------------------------------------------------------------
(* The host: volumes come and go, a shutdown signal may be raised *)

\* Volumes that can be mounted while the run waits.
RunVolumes ==
    {[exists |-> TRUE, query |-> "ok", label |-> TargetLabel, files |-> fs] :
         fs \in {<<>>, <<OldArchive>>}}
    \cup {[exists |-> TRUE, query |-> "ok", label |-> "backup1", files |-> <<>>],
          [exists |-> TRUE, query |-> "raise", label |-> TargetLabel, files |-> <<>>]}

Attach ==
    /\ pc \in DrivePcs
    /\ \E l \in Letters, v \in RunVolumes :
          /\ ~roots[l].exists
          /\ roots' = [roots EXCEPT ![l] = v]
          /\ everTarget' = (everTarget \/ (v.query = "ok" /\ v.label = drive_name))
    /\ UNCHANGED <<pc, destination_type, count, drive_name, archiveExists, outDir,
                   dirFiles, drive_letter, retries, delay, tries, copyResult,
                   rotBefore, rotFailed, events, reported, copied, polls, cancelled>>

Detach ==
    /\ pc \in DrivePcs
    /\ \E l \in Letters :
          /\ roots[l].exists
          /\ roots' = [roots EXCEPT ![l] = Absent]
    /\ UNCHANGED <<pc, destination_type, count, drive_name, archiveExists, outDir,
                   dirFiles, drive_letter, retries, delay, tries, copyResult,
                   rotBefore, rotFailed, events, reported, copied, polls, cancelled, everTarget>>

\* The host signals the process while the loop sleeps. A signal the process
\* has not been made to ignore ends it there: SIGINT raises KeyboardInterrupt
\* out of time.sleep, which "except Exception" does not catch, and SIGTERM
\* kills the process. A signal the process ignores changes nothing, and the
\* loop, which looks at no signal, goes on.
Cancel ==
    /\ pc = "drv_poll"
    /\ ~cancelled
    /\ cancelled' = TRUE
    /\ \E ignored \in BOOLEAN : pc' = IF ignored THEN pc ELSE "killed"
    /\ UNCHANGED <<destination_type, count, drive_name, archiveExists, outDir,
                   dirFiles, roots, drive_letter, retries, delay, tries, copyResult,
                   rotBefore, rotFailed, events, reported, copied, polls, everTarget>>

----------------------------------------------------------------------------
(* Specifications *)

\* What no call has touched yet.
Fresh ==
    /\ drive_letter = NoDrive
    /\ retries = CopyRetries
    /\ delay = CopyDelay
    /\ tries = <<>>
    /\ copyResult = "none"
    /\ rotBefore = <<>>
    /\ rotFailed = {}
    /\ events = {}
    /\ reported = {}
    /\ copied = {}
    /\ polls = 0
    /\ cancelled = FALSE

\* The output directory before the run, with what it holds.
OutDirStates ==
    {<<"present", <<>> >>, <<"present", <<OldArchive>> >>,
     <<"present", <<OldArchive, OldArchive2>> >>,
     <<"readonly", <<OldArchive>> >>, <<"missing", <<>> >>, <<"uncreatable", <<>> >>}

Init ==
    /\ pc = "main"
    /\ destination_type \in {"directory", "drive", "both"}
    /\ count \in 0..MaxCount
    /\ drive_name = TargetLabel
    /\ archiveExists = FALSE
    /\ \E od \in OutDirStates : outDir = od[1] /\ dirFiles = od[2]
    \* the output directory plays no part in drive mode
    /\ destination_type = "drive" => outDir = "present" /\ dirFiles = <<>>
    /\ roots = [l \in Letters |-> Absent]
    /\ everTarget = FALSE
    /\ Fresh

Program == Main \/ DirMakedirs \/ copy_with_retry \/ DirRotate
               \/ DrvPoll \/ DrvMakedirs \/ DrvRotate

Host == Attach \/ Detach

Next == Program \/ Host

Spec == Init /\ [][Next]_vars

\* The run with a host that may also ask it to stop.
CancelNext == Next \/ Cancel

CancelSpec == Init /\ [][CancelNext]_vars

----------------------------------------------------------------------------
(* Drive mode alone, with the process running on while it has a step to take *)

DriveInit == Init /\ destination_type = "drive"

DriveProgram == Main \/ copy_with_retry \/ DrvPoll \/ DrvMakedirs \/ DrvRotate

DriveNext == DriveProgram \/ Host

DriveSpec == DriveInit /\ [][DriveNext]_vars /\ WF_vars(DriveProgram)

----------------------------------------------------------------------------
(* The three support functions, each called on its own *)

\* rotate_backups(directory, max_count) on any listing.
RotateCall ==
    /\ pc = "call_rotate"
    /\ \E locked \in LockedChoices(dirFiles, count, FALSE) :
          /\ dirFiles' = rotate_backups(dirFiles, count, locked)
          /\ rotFailed' = locked
    /\ rotBefore' = dirFiles
    /\ pc' = "rotated"
    /\ UNCHANGED <<destination_type, count, drive_name, archiveExists, outDir,
                   roots, drive_letter, retries, delay, tries, copyResult,
                   events, reported, copied, polls, cancelled, everTarget>>

\* The other place archives are kept in, while the directory is rotated: no
\* volume, or the backup volume holding an archive of an earlier run.
OtherDestination ==
    {[l \in Letters |-> Absent],
     [l \in Letters |-> IF l = 1
                        THEN [exists |-> TRUE, query |-> "ok", label |-> TargetLabel,
                              files |-> <<OldArchive>>]
                        ELSE Absent]}

RotateInit ==
    /\ pc = "call_rotate"
    /\ destination_type = "directory"
    /\ count \in 0..MaxKeep
    /\ drive_name = TargetLabel
    /\ archiveExists = TRUE
    /\ outDir = "present"
    /\ dirFiles \in Listings(MaxFiles)
    /\ roots \in OtherDestination
    /\ everTarget = (\E l \in Letters : Usable(roots[l]) /\ roots[l].label = drive_name)
    /\ Fresh

RotateSpec == RotateInit /\ [][RotateCall]_vars

\* Every state a root can be in.
AllRoots ==
    {Absent} \cup
    {[exists |-> TRUE, query |-> q, label |-> lb, files |-> <<>>] :
         q \in {"ok", "zero", "raise"}, lb \in Labels}

\* is_drive_connected_with_label(target_label) on any set of roots.
LocateCall ==
    /\ pc = "call_locate"
    /\ drive_letter' = is_drive_connected_with_label(roots, drive_name)
    /\ pc' = "located"
    /\ UNCHANGED <<destination_type, count, drive_name, archiveExists, outDir,
                   dirFiles, roots, retries, delay, tries, copyResult, rotBefore,
                   rotFailed, events, reported, copied, polls, cancelled, everTarget>>

LocateInit ==
    /\ pc = "call_locate"
    /\ destination_type = "drive"
    /\ count = 0
    /\ drive_name \in Labels
    /\ archiveExists = TRUE
    /\ outDir = "present"
    /\ dirFiles = <<>>
    /\ roots \in [Letters -> AllRoots]
    /\ everTarget = (\E l \in Letters : Usable(roots[l]) /\ roots[l].label = drive_name)
    /\ Fresh

LocateSpec == LocateInit /\ [][LocateCall]_vars

\* copy_with_retry(src, dst, retries, delay) with any arguments.
CopyInit ==
    /\ pc = "call_copy"
    /\ destination_type = "directory"
    /\ count = 0
    /\ drive_name = TargetLabel
    /\ archiveExists \in BOOLEAN
    /\ \E od \in OutDirStates : outDir = od[1] /\ dirFiles = od[2]
    /\ outDir # "uncreatable"
    /\ roots = [l \in Letters |-> Absent]
    /\ drive_letter = NoDrive
    /\ retries \in 0..MaxRetries
    /\ delay \in 0..1
    /\ tries = <<>>
    /\ copyResult = "none"
    /\ rotBefore = <<>>
    /\ rotFailed = {}
    /\ events = {}
    /\ reported = {}
    /\ copied = {}
    /\ polls = 0
    /\ cancelled = FALSE
    /\ everTarget = FALSE

CopySpec == CopyInit /\ [][copy_with_retry]_vars

----------------------------------------------------------------------------
(* Claims *)

\* Elements of a sequence.
Elems(s) == {s[i] : i \in DOMAIN s}

\* The roots a scan may answer with: present, readable, labelled target.
Matching(rs, target_label) ==
    {l \in Letters : rs[l].exists /\ rs[l].query = "ok" /\ rs[l].label = target_label}

\* The legs main dispatches to.
Dispatched ==
    IF destination_type = "directory" THEN {"dir"}
    ELSE IF destination_type = "drive" THEN {"drv"} ELSE {"dir", "drv"}

\* C1: after rotate_backups(directory, max_count) with every deletion
\* succeeding, exactly min(n, max_count) of the n archive files remain, and
\* no archive that remains was created before one that was deleted.
C1_RotationKeepsNewest ==
    (pc = "rotated" /\ rotFailed = {}) =>
        LET before == Elems(Candidates(rotBefore))
            after == Elems(Candidates(dirFiles))
        IN  /\ after \subseteq before
            /\ Cardinality(after) = Min(Cardinality(before), count)
            /\ \A kept \in after, gone \in before \ after : gone.ctime <= kept.ctime

\* C2: rotate_backups with max_count = 0 on a directory holding archive files
\* leaves no archive file (every deletion succeeding).
C2_KeepNoneDeletesAll ==
    (pc = "rotated" /\ count = 0 /\ rotFailed = {} /\ Candidates(rotBefore) # <<>>) =>
        Candidates(dirFiles) = <<>>

\* C3: copy_with_retry never makes more than `retries` copy attempts; called
\* with valid arguments it stops after the first attempt when that attempt
\* succeeds or raises a non-transient error (which it lets through), and it
\* makes exactly `retries` attempts, then logs the failure, when every attempt
\* raises PermissionError.
C3_AttemptCounts ==
    /\ Len(tries) <= retries
    /\ \A i \in 1..(Len(tries) - 1) : tries[i] = "perm"
    /\ (pc \in {"returned", "raised"} /\ ValidArgs(retries, delay)) =>
          /\ tries # <<>>
          /\ tries[1] = "ok" => Len(tries) = 1 /\ pc = "returned" /\ copyResult = "ok"
          /\ tries[1] = "raise" => Len(tries) = 1 /\ pc = "raised"
          /\ (\A i \in DOMAIN tries : tries[i] = "perm") =>
                 Len(tries) = retries /\ pc = "returned" /\ copyResult = "exhausted"

\* C3 witness: a call that used up its retries on PermissionError, with more
\* than one attempt allowed.
C3_Witness ==
    /\ pc = "returned"
    /\ retries >= 2
    /\ Len(tries) = retries
    /\ \A i \in DOMAIN tries : tries[i] = "perm"

\* C4: a mode, and the run, is reported successful only when the archive was
\* copied to the destination of that mode, and of every dispatched mode.
C4_SuccessOnlyIfCopied ==
    /\ "dir_ok" \in reported => "dir" \in copied
    /\ "drv_ok" \in reported => "drv" \in copied
    /\ "all_ok" \in reported => Dispatched \subseteq copied

\* C5: in Both mode a run whose Directory leg failed has started the Drive leg
\* by the time it ends.
C5_DriveLegRunsAfterDirectoryFailure ==
    (destination_type = "both" /\ "dir_failed" \in events /\ pc \in {"exit", "done"}) =>
        "drv_poll" \in events

\* A readable volume with the target label is mounted.
TargetMounted == Matching(roots, drive_name) # {}

\* C6: in Both mode no poll for the volume is made before the Directory leg
\* has made its copy and its rotation and reported its success; and as long
\* as no volume with the target label has ever been mounted, the run reports
\* neither the drive mode, nor both modes, nor the whole run as successful,
\* and does not end as done.
C6_DirectoryFirstAndNoSuccessWithoutVolume ==
    destination_type = "both" =>
        /\ "drv_poll" \in events =>
               {"dir_copy", "dir_rotate"} \subseteq events /\ "dir_ok" \in reported
        /\ ~everTarget =>
               reported \cap {"drv_ok", "both_ok", "all_ok"} = {} /\ pc # "done"

\* C6 witness: Both mode, the archive copied into the directory, polls
\* already made in vain, and no target volume mounted so far.
C6_Witness ==
    /\ destination_type = "both"
    /\ "dir" \in copied
    /\ "dir_ok" \in reported
    /\ pc = "drv_poll"
    /\ polls >= 1
    /\ ~everTarget

\* The state an error of the drive leg leaves: the last shutil.copy2 call
\* raised, or the loop is back at its poll through the except branch (only
\* then does it poll with a root already in drive_letter).
DriveError ==
    \/ pc \in DrivePcs /\ tries # <<>> /\ tries[Len(tries)] # "ok"
    \/ pc = "drv_poll" /\ drive_letter # NoDrive

\* C7: in Drive mode a poll made while a readable volume with the target
\* label is mounted finds it and goes on to create the backup directory; and
\* when such a volume stays mounted from some time on, the drive mode
\* finishes with the archive copied, unless a makedirs or copy error occurs.
C7_AttachedVolumeIsDelivered ==
    /\ [][(DrvPoll /\ TargetMounted) =>
              (pc' = "drv_makedirs" /\ drive_letter' \in Matching(roots, drive_name))]_vars
    /\ (<>(pc = "drv_poll") /\ <>[]TargetMounted /\ []~DriveError) =>
           <>(pc = "done" /\ "drv" \in copied)

\* C7 witness: in drive mode, after MaxPolls polls made in vain, a poll has
\* just found a volume with the target label and the loop is about to create
\* the backup directory on it.
C7_Witness ==
    /\ destination_type = "drive"
    /\ polls >= MaxPolls
    /\ pc = "drv_makedirs"
    /\ drive_letter \in Matching(roots, drive_name)

\* C8: while no file exists at the archive path the run starts no destination
\* mode: it is still in main or it has exited.
C8_NoDispatchWithoutArchive ==
    ~archiveExists => pc \in {"main", "exit"} /\ events = {}

\* C9: a pass of the drive loop that starts after the host raised the shutdown
\* signal does not go back to waiting for the volume.
C9_CancelStopsPolling ==
    [][(cancelled /\ DrvPoll) => pc' # "drv_poll"]_vars

\* C10: is_drive_connected_with_label answers with the first root, in letter
\* order, that exists, can be queried and carries exactly the target label,
\* and with None exactly when there is no such root.
C10_FirstMatchingRoot ==
    pc = "located" =>
        IF Matching(roots, drive_name) = {}
        THEN drive_letter = NoDrive
        ELSE /\ drive_letter \in Matching(roots, drive_name)
             /\ \A m \in Matching(roots, drive_name) : drive_letter <= m

\* C10 witness: the scan passed a root whose query raised and a root with the
\* label in another case, and answered with a later root.
C10_Witness ==
    /\ pc = "located"
    /\ drive_letter > 1
    /\ \E l \in 1..(drive_letter - 1) :
          roots[l].exists /\ (roots[l].query = "raise" \/ roots[l].label # drive_name)

\* C11: in Directory mode no copy attempt is made while the output directory
\* does not exist (a missing one has been created by then); and with an
\* output directory that cannot be created or written the directory leg
\* never reaches rotation and reports no success.
C11_CreatedBeforeCopyAndNoRotationWhenUnwritable ==
    /\ (pc = "dir_copy" \/ "dir_copy" \in events) => outDir \notin {"missing", "uncreatable"}
    /\ outDir \in {"uncreatable", "readonly"} =>
           /\ pc # "dir_rotate"
           /\ "dir_rotate" \notin events
           /\ "dir_ok" \notin reported

\* C12: in either mode rotate_backups is called only after a copy_with_retry
\* call whose shutil.copy2 succeeded; a rotation pass that follows a failed
\* copy removes nothing from the destination.
C12_RotationOnlyAfterSuccessfulCopy ==
    /\ [][(DirRotate \/ DrvRotate) => copyResult = "ok"]_vars
    /\ [][((DirRotate \/ DrvRotate) /\ copyResult # "ok") =>
              (dirFiles' = dirFiles /\ roots' = roots)]_vars

\* A step of the drive leg that fails on a structural error: shutil.copy2
\* finds no archive at the source path, or os.makedirs cannot create the
\* backup directory on a volume that is mounted and readable.
StructuralFailure ==
    \/ pc = "drv_copy" /\ ~archiveExists /\ copy_with_retry
    \/ DrvMakedirs /\ Usable(roots[drive_letter]) /\ pc' # "drv_copy"

\* C13: in Drive mode a structural error met after the volume was found ends
\* the drive mode: the loop is left, and no further delivery is attempted.
C13_StructuralErrorEndsDriveMode ==
    [][StructuralFailure => pc' \notin DrivePcs]_vars

\* A step of the drive leg that fails after the volume was found:
\* os.makedirs raises, shutil.copy2 raises something other than
\* PermissionError (the volume was removed, the archive is missing), or
\* shutil.copy2 raises PermissionError on the last pass copy_with_retry allows.
FailedInDriveLoop ==
    \/ DrvMakedirs /\ pc' # "drv_copy"
    \/ pc = "drv_copy" /\ copy_with_retry /\ copyResult' \in {"raised", "exhausted"}

\* C14: in Drive mode a failure after the volume was found sends the loop
\* back to polling, with nothing reported and the run not ended; the
\* directory creation that follows is entered only from a poll, on the root
\* that poll found among the volumes mounted at that moment, whatever root an
\* earlier poll had found.
C14_FailureAfterFoundPollsAgain ==
    /\ [][FailedInDriveLoop => (pc' = "drv_poll" /\ reported' = reported)]_vars
    /\ [][(pc' = "drv_makedirs" /\ pc # "drv_makedirs") =>
              (DrvPoll /\ drive_letter' \in Matching(roots, drive_name))]_vars
    /\ [][DrvPoll => drive_letter' \in Matching(roots, drive_name) \cup {NoDrive}]_vars
    /\ [](pc \in {"drv_makedirs", "drv_copy", "drv_rotate"} => drive_letter # NoDrive)

\* C15: in Drive mode a poll made while no readable volume carries the target
\* label finds nothing and leaves the loop at its poll, with nothing
\* reported, created, copied or deleted; as long as no such volume has been
\* mounted the loop is at its poll, nothing is reported or copied, and with
\* no such volume ever mounted it goes on polling; the drive mode is
\* reported as done only with a root a poll returned.
C15_WaitsWhileNoVolume ==
    /\ [][(DrvPoll /\ ~TargetMounted) =>
              /\ pc' = "drv_poll"
              /\ drive_letter' = NoDrive
              /\ UNCHANGED <<reported, copied, roots, dirFiles, copyResult>>]_vars
    /\ []((pc \in DrivePcs /\ ~everTarget) =>
              /\ pc = "drv_poll"
              /\ drive_letter = NoDrive
              /\ reported = {}
              /\ copied = {}
              /\ copyResult = "none")
    /\ []("drv_ok" \in reported => (everTarget /\ drive_letter # NoDrive))
    /\ ([]~TargetMounted) => ((pc = "drv_poll") ~> (polls = MaxPolls))

\* C15 witness: MaxPolls polls made in vain, a volume labelled in another
\* case and a volume that cannot be queried being mounted, the loop still at
\* its poll.
C15_Witness ==
    /\ destination_type = "drive"
    /\ pc = "drv_poll"
    /\ polls = MaxPolls
    /\ ~everTarget
    /\ \E l \in Letters : roots[l].exists /\ roots[l].query = "ok" /\ roots[l].label # drive_name
    /\ \E l \in Letters : roots[l].exists /\ roots[l].query = "raise"

\* The max_count most recently created archive files of a listing.
NewestOf(files, max_count) ==
    LET sorted == SortByCtime(Candidates(files))
        n == Len(sorted)
    IN  SubSeq(sorted, n - Min(max_count, n) + 1, n)

\* C16: the rotation of the output directory is made only after the copy
\* step of the directory mode; after a copy that succeeded the archive just
\* copied is among the files the rotation considers, and (every deletion
\* succeeding) it stays exactly when it is among the max_count newest of them.
C16_CopyPrecedesRotationAndNewArchiveIsCandidate ==
    /\ []((pc = "dir_rotate" \/ "dir_rotate" \in events) => "dir_copy" \in events)
    /\ [](pc = "dir_rotate" => copyResult # "none")
    /\ [][(DirRotate /\ copyResult = "ok") =>
              NewArchive \in Elems(Candidates(dirFiles))]_vars
    /\ [][(DirRotate /\ copyResult = "ok" /\ rotFailed' = {}) =>
              (NewName \in Names(dirFiles') <=>
                   NewName \in Names(NewestOf(dirFiles, count)))]_vars

\* C17: a rotation pass removes every excess archive whose os.remove does
\* not fail, whichever of the others fail, and removes nothing else; whatever
\* fails in it, the mode that made the pass goes on to report its success and
\* the run goes on.
C17_FailedDeletionStopsNothing ==
    /\ [][DirRotate =>
              /\ Names(dirFiles') = Names(dirFiles) \ (Names(Excess(dirFiles, count)) \ rotFailed')
              /\ "dir_ok" \in reported'
              /\ pc' \in {"drv_poll", "done"}]_vars
    /\ [][(DrvRotate /\ Usable(roots[drive_letter])) =>
              Names(roots'[drive_letter].files) =
                     Names(roots[drive_letter].files)
                         \ (Names(Excess(roots[drive_letter].files, count)) \ rotFailed')]_vars
    /\ [][DrvRotate => ("drv_ok" \in reported' /\ pc' = "done")]_vars

\* C17 witness: a directory run whose copy succeeded and whose rotation
\* failed to remove the oldest archive and removed the next one; the mode
\* reported its success.
C17_Witness ==
    /\ destination_type = "directory"
    /\ pc = "done"
    /\ "dir" \in copied
    /\ rotFailed = {OldArchive.name}
    /\ OldArchive2.name \in Names(rotBefore) \ Names(dirFiles)
    /\ OldArchive.name \in Names(dirFiles)
    /\ "dir_ok" \in reported

\* C18: rotate_backups leaves in place, in their order, every entry of the
\* directory that is a subdirectory or whose name does not end in .7z, and
\* adds or alters no entry; when the regular .7z files alone number no more
\* than max_count it removes nothing, however many other entries there are;
\* and it leaves the files of every volume as they were.
C18_OnlyArchiveFilesOfTheDirectory ==
    /\ [](pc = "rotated" =>
              /\ SelectSeq(dirFiles, LAMBDA e : ~e.isfile \/ ~e.ext7z)
                     = SelectSeq(rotBefore, LAMBDA e : ~e.isfile \/ ~e.ext7z)
              /\ Elems(dirFiles) \subseteq Elems(rotBefore)
              /\ Cardinality({i \in DOMAIN rotBefore :
                                  rotBefore[i].isfile /\ rotBefore[i].ext7z}) <= count
                     => dirFiles = rotBefore)
    /\ [][RotateCall => roots' = roots]_vars

\* C18 witness: a pass that removed an archive from a directory which also
\* holds a subdirectory named like an archive, while the backup volume holds
\* an archive of its own.
C18_Witness ==
    /\ pc = "rotated"
    /\ dirFiles # rotBefore
    /\ \E i \in DOMAIN rotBefore : rotBefore[i].ext7z /\ ~rotBefore[i].isfile
    /\ \E l \in Letters : roots[l].files # <<>>

\* C19: a copy_with_retry call with retries = 0 or delay = 0 calls
\* shutil.copy2 not once, leaves the destination without the archive, and
\* returns to its caller as a call whose copy was made does, raising nothing.
C19_InvalidArgumentsCopyNothing ==
    (retries = 0 \/ delay = 0) =>
        /\ tries = <<>>
        /\ copied = {}
        /\ NewName \notin Names(dirFiles)
        /\ pc \in {"call_copy", "returned"}
        /\ pc = "returned" => copyResult = "invalid"

\* C19 witness: a call with five retries and delay 0 has returned.
C19_Witness ==
    /\ pc = "returned"
    /\ copyResult = "invalid"
    /\ retries = CopyRetries
    /\ delay = 0
    /\ archiveExists
    /\ outDir = "present"

====
